---- MODULE Spec2Model ----
(***************************************************************************)
(* CalascioNES (Android port): the memory-mapped bus dispatcher of         *)
(* src/src/Bus.cpp and the frame / audio hand-off of src/main.cpp.         *)
(*                                                                         *)
(* Every public operation of Bus.cpp is one action. The specifications     *)
(* draw their calls from different input sets:                             *)
(* Spec        the controller / light-gun port protocol: reads and writes  *)
(*             of 0x4016 and 0x4017, soft_reset, set_zapper, with          *)
(*             controller_state (extern, main.cpp) changing in between.    *)
(* SpecDecode  the address decode of cpu_reads, cpu_writes, ppu_reads and  *)
(*             ppu_writes over the edges of every range.                   *)
(* SpecIrq     assert_irq, ack_irq, get_irq beside the port operations.    *)
(* SpecZapper  the light gun operations on port 2.                         *)
(* SpecAudio   the audio ring buffer: a producer storing samples and the   *)
(*             audio_callback consumer of main.cpp.                        *)
(* SpecAudioSteps  the same ring with the producer's store and advance and *)
(*             the callback's test, copy and advance as separate steps.    *)
(* SpecFrame   the emulation thread and the presentation thread of         *)
(*             main.cpp around framebuffer_mutex and the running flag.     *)
(* SpecFrameFair  SpecFrame with both threads scheduled (weak fairness).   *)
(* SpecInput   the touch branch of handle_events on the presentation       *)
(*             thread against the emulated program's poll of 0x4016.       *)
(***************************************************************************)
EXTENDS Integers, Sequences, FiniteSets, TLC

(***************************************************************************)
(* Bounds of the model.                                                    *)
(***************************************************************************)
\* controller bitmasks tried: 1 (the A button alone) and NumCtrl patterns
NumCtrl == 1
\* bytes written by the CPU are 0 .. MaxWrite
MaxWrite == 2
\* bytes a collaborator (PPU, APU, Cartridge) may answer: MaxDev + 1 of them
MaxDev == 1
\* addresses tried: every address within AddrSpread of an edge of the decode
AddrSpread == 0
\* reads of 0x4016 counted after a latch
MaxReads == 10
\* interrupt sources: the bits 2^0 .. 2^(NumIrq-1)
NumIrq == 2
\* the audio ring holds 2^BufBits samples (8192 = 2^13 in main.cpp)
BufBits == 2
\* samples the producer stores before it stops
MaxSamples == 10
\* pixels of a frame (256 * 240 in main.cpp)
FrameLen == 2
\* distinct frame contents the PPU renders, in turn
NumFrames == 2
\* frames counted before the once-a-second snapshot is due
MaxFrameCount == 2

\* the highest virtual button touched (the pad has buttons 0 .. 7)
MaxButton == 1

(***************************************************************************)
(* 8 and 16 bit arithmetic of the C++ code.                                *)
(***************************************************************************)
Pow2(n) == 2 ^ n

Bit(x, i) == (x \div Pow2(i)) % 2

\* x & y, bit by bit from the least significant one
RECURSIVE BitAnd(_, _)
BitAnd(x, y) ==
    IF x = 0 \/ y = 0 THEN 0
    ELSE (x % 2) * (y % 2) + 2 * BitAnd(x \div 2, y \div 2)

\* x | y
BitOr(x, y) == x + y - BitAnd(x, y)

\* x & ~y
BitClear(x, y) == x - BitAnd(x, y)

\* x >> n
ShiftRight(x, n) == x \div Pow2(n)

\* conversion to uint8_t
U8(x) == x % 256

(***************************************************************************)
(* Inputs.                                                                 *)
(***************************************************************************)
\* the 16 bit controller bitmasks tried: button A alone, and patterns that
\* set bits of both bytes
CtrlPattern(i) == (i * \h5AC3) % 65536

CtrlStates == {1} \cup {CtrlPattern(i) : i \in 0 .. NumCtrl}

WriteValues == 0 .. MaxWrite

\* what PPU, APU and Cartridge may answer to a read
DevBytes == {(i * 171) % 256 : i \in 0 .. MaxDev}

\* the edges of the address decode of cpu_reads / cpu_writes / ppu_reads
Edges == {\h0000, \h1FFF, \h2000, \h2007, \h3FFF, \h4000, \h4015, \h4016,
          \h4017, \h4018, \h401F, \h4020, \hFFFF}

Addrs == UNION {(IF e > AddrSpread THEN e - AddrSpread ELSE 0) ..
                (IF e + AddrSpread < 65535 THEN e + AddrSpread ELSE 65535) :
                e \in Edges}

IrqSources == {Pow2(i) : i \in 0 .. NumIrq - 1}

\* gun coordinates on the emulated screen, [0,256) x [0,240): its corners
ZapperXs == {0, 255}

ZapperYs == {0, 239}

(***************************************************************************)
(* State.                                                                  *)
(***************************************************************************)
VARIABLES
    \* Bus (Bus.h fields used by Bus.cpp)
    strobe, shift_register_controller1, shift_register_controller2,
    zapper_connected, zapper, IRQ_line, NMI,
    \* main.cpp:47, read by Bus::cpu_writes
    controller_state,
    \* what the last operation was, what it returned, which branch of the
    \* decode it took and which collaborator calls it made
    op, data, route, calls,
    \* the Bus fields as they were when the last operation started
    pre,
    \* position in the sequence write(0x4016,1); write(0x4016,0); reads
    latch,
    \* the interrupt sources whose most recent call was assert_irq
    asserted,
    \* main.cpp:36-38, the audio ring and its cursors
    audio_buffer, write_pos, read_pos,
    \* the stream the last audio_callback filled, and its request
    output, samples_needed,
    \* samples stored so far; those stored since write_pos = read_pos last
    \* held (burst.ok: with no sample taken out since); the ring state as
    \* the last audio_callback found it
    stored, burst, audioPre,
    \* every sample the callbacks have copied out, in order; whether the
    \* producer ever got BUFFER_SIZE samples ahead of the consumer
    consumed, overrun,
    \* where the producer is in its store-then-advance, and where a callback
    \* that is running has got to
    prod_pc, cb,
    \* the emulated program's controller poll (where it is, the register as
    \* its latch left it, how many reads it has made since and what the last
    \* one returned) and where the touch branch of handle_events is
    game, touch_pc,
    \* main.cpp:41-43, running, framebuffer_mutex (its holder) and screen
    running, framebuffer_mutex, screen,
    \* the frame the PPU holds, the texture the presentation thread filled,
    \* whether a game is loaded, frame_count and FPS of emulate_nes
    ppu_screen, texture, game_loaded, frame_count, FPS,
    \* where each thread is, and the pixel its copy has reached
    emu_pc, emu_i, main_pc, main_i

busVars == <<strobe, shift_register_controller1, shift_register_controller2,
             zapper_connected, zapper, IRQ_line, NMI>>

obsVars == <<op, data, route, calls, pre, latch, asserted>>

audioVars == <<audio_buffer, write_pos, read_pos, output, samples_needed,
               stored, burst, audioPre, consumed, overrun, prod_pc, cb>>

frameVars == <<running, framebuffer_mutex, screen, ppu_screen, texture,
               game_loaded, frame_count, FPS, emu_pc, emu_i, main_pc, main_i>>

inputVars == <<game, touch_pc>>

vars == <<busVars, controller_state, obsVars, audioVars, frameVars, inputVars>>

\* the fields of the Bus, as one record
BusState ==
    [strobe |-> strobe,
     sr1 |-> shift_register_controller1,
     sr2 |-> shift_register_controller2,
     zapper_connected |-> zapper_connected,
     zapper |-> zapper,
     IRQ_line |-> IRQ_line,
     NMI |-> NMI]

NoCalls == << >>

Call(unit, fn, a, v) == [unit |-> unit, fn |-> fn, a |-> a, v |-> v]

Op(name, a, v) == [name |-> name, a |-> a, v |-> v]

LatchIdle == [phase |-> "idle", B |-> 0, n |-> 0]

\* the state an operation starts from, kept for the operation's frame
Snapshot == [bus |-> BusState, controller_state |-> controller_state]

Observe(o, d, r, c) ==
    /\ op' = o
    /\ data' = d
    /\ route' = r
    /\ calls' = c
    /\ pre' = Snapshot
    /\ UNCHANGED <<audioVars, frameVars>>

\* the sequence cpu_writes(0x4016,1); cpu_writes(0x4016,0); cpu_reads(0x4016)*
\* is followed as long as no other Bus operation comes in between
LatchNext(o) ==
    IF o.name = "cpu_writes" /\ o.a = \h4016 /\ o.v = 1
    THEN [phase |-> "w1", B |-> controller_state, n |-> 0]
    ELSE IF o.name = "cpu_writes" /\ o.a = \h4016 /\ o.v = 0 /\ latch.phase = "w1"
    THEN [phase |-> "w0", B |-> latch.B, n |-> 0]
    ELSE IF o.name = "cpu_reads" /\ o.a = \h4016 /\ latch.phase = "w0"
    THEN [latch EXCEPT !.n = IF latch.n < MaxReads THEN latch.n + 1 ELSE MaxReads]
    ELSE LatchIdle

(***************************************************************************)
(* Bus::cpu_reads                                                          *)
(***************************************************************************)
\* data = (shift_register & 1)
SerialBit(reg) == BitAnd(reg, 1)

\* a shift that drops two bits instead of one
ShiftOutTwice(reg) == ShiftRight(reg, 2)

\* shift_register >>= 1
ShiftOut(reg) == ShiftRight(reg, 1)

\* data |= 0x40
OpenBus(d) == BitOr(d, \h40)

\* the light gun read through the generic serial path
ZapperLineSerial(reg) == BitAnd(reg, 1)

\* data = shift_register_controller2 (data is a uint8_t)
ZapperLine(reg) == U8(reg)

\* ppu->cpu_reads(address & 0x7), ppu->cpu_writes(address & 0x7, value)
PpuRegister(address) == BitAnd(address, 7)

\* a port 1 read that shifts whatever the strobe
ReadPort1AlwaysShifts ==
    [data |-> OpenBus(SerialBit(shift_register_controller1)),
     sr1 |-> ShiftOut(shift_register_controller1)]

\* the branch for address == 0x4016: [data, sr1]
ReadPort1 ==
    IF strobe
    THEN [data |-> OpenBus(SerialBit(shift_register_controller1)),
          sr1 |-> shift_register_controller1]
    ELSE [data |-> OpenBus(SerialBit(shift_register_controller1)),
          sr1 |-> ShiftOut(shift_register_controller1)]

\* the branch for address == 0x4017: [data, sr2, zapper]
ReadPort2 ==
    IF zapper_connected
    THEN [data |-> OpenBus(ZapperLine(shift_register_controller2)),
          sr2 |-> shift_register_controller2,
          zapper |-> [zapper EXCEPT !.light_sensed = 1]]
    ELSE IF strobe
    THEN [data |-> OpenBus(SerialBit(shift_register_controller2)),
          sr2 |-> shift_register_controller2,
          zapper |-> zapper]
    ELSE [data |-> OpenBus(SerialBit(shift_register_controller2)),
          sr2 |-> ShiftOut(shift_register_controller2),
          zapper |-> IF zapper_connected /\ SerialBit(shift_register_controller2) = 0
                     THEN [zapper EXCEPT !.trigger = 1]
                     ELSE zapper]

\* address >= 0x2000 && address < 0x4000
ReadsPpu(address) == address >= \h2000 /\ address < \h4000

\* an I/O window of reads that stops short of the controller ports
ReadsIoBelowPorts(address) == address >= \h4000 /\ address < \h4016

\* address >= 0x4000 && address < 0x4018
ReadsIo(address) == address >= \h4000 /\ address < \h4018

\* address >= 0x4020 && address <= 0xFFFF
ReadsCart(address) == address >= \h4020 /\ address <= \hFFFF

\* the whole decode of a read; dev is what the collaborator called answers
ReadEffect(address, dev) ==
    LET same == [data |-> 0,
                 sr1 |-> shift_register_controller1,
                 sr2 |-> shift_register_controller2,
                 zapper |-> zapper,
                 route |-> "NONE",
                 calls |-> NoCalls]
    IN  IF ReadsPpu(address)
        THEN [same EXCEPT !.data = dev, !.route = "PPU",
                  !.calls = <<Call("PPU", "cpu_reads", PpuRegister(address), 0)>>]
        ELSE IF ReadsIo(address)
        THEN IF address = \h4016
             THEN [same EXCEPT !.data = ReadPort1.data, !.sr1 = ReadPort1.sr1,
                       !.route = "CTRL"]
             ELSE IF address = \h4017
             THEN [same EXCEPT !.data = ReadPort2.data, !.sr2 = ReadPort2.sr2,
                       !.zapper = ReadPort2.zapper, !.route = "CTRL"]
             ELSE [same EXCEPT !.data = dev, !.route = "APU",
                       !.calls = <<Call("APU", "cpu_reads", address, 0)>>]
        ELSE IF ReadsCart(address)
        THEN [same EXCEPT !.data = dev, !.route = "CART",
                  !.calls = <<Call("CART", "cpu_reads", address, 0)>>]
        ELSE same

cpu_reads(address) ==
    \E dev \in DevBytes :
        LET e == ReadEffect(address, dev)
            o == Op("cpu_reads", address, 0)
        IN  /\ shift_register_controller1' = e.sr1
            /\ shift_register_controller2' = e.sr2
            /\ zapper' = e.zapper
            /\ Observe(o, e.data, e.route, e.calls)
            /\ latch' = LatchNext(o)
            /\ UNCHANGED <<strobe, zapper_connected, IRQ_line, NMI, controller_state,
                           asserted>>

(***************************************************************************)
(* Bus::cpu_writes                                                         *)
(***************************************************************************)
\* strobe = value & 1
StrobeOf(value) == BitAnd(value, 1) = 1

\* shift_register_controller1 = controller_state & 0xFF
LatchPort1(cs) == BitAnd(cs, \hFF)

\* port 2 seeded from the low byte
LatchPort2LowByte(cs) == BitAnd(cs, \hFF)

\* shift_register_controller2 = (controller_state >> 8) & 0xFF
LatchPort2(cs) == BitAnd(ShiftRight(cs, 8), \hFF)

\* a latch on the rising edge of strobe only
WritePortRisingEdge(value) ==
    IF StrobeOf(value) /\ ~strobe
    THEN [strobe |-> TRUE,
          sr1 |-> LatchPort1(controller_state),
          sr2 |-> IF ~zapper_connected
                  THEN LatchPort2(controller_state)
                  ELSE shift_register_controller2]
    ELSE [strobe |-> StrobeOf(value),
          sr1 |-> shift_register_controller1,
          sr2 |-> shift_register_controller2]

\* the branch for address == 0x4016: [strobe, sr1, sr2]
WritePort(value) ==
    IF StrobeOf(value)
    THEN [strobe |-> TRUE,
          sr1 |-> LatchPort1(controller_state),
          sr2 |-> IF ~zapper_connected
                  THEN LatchPort2(controller_state)
                  ELSE shift_register_controller2]
    ELSE [strobe |-> FALSE,
          sr1 |-> shift_register_controller1,
          sr2 |-> shift_register_controller2]

\* (address >= 0x2000) && (address < 0x4000)
WritesPpu(address) == address >= \h2000 /\ address < \h4000

\* an I/O range that ends one address late
WritesIoInclusive(address) == address >= \h4000 /\ address <= \h4018

\* (address >= 0x4000) && (address < 0x4018)
WritesIo(address) == address >= \h4000 /\ address < \h4018

\* (address >= 0x4020) && (address <= 0xFFFF)
WritesCart(address) == address >= \h4020 /\ address <= \hFFFF

WriteEffect(address, value) ==
    LET same == [strobe |-> strobe,
                 sr1 |-> shift_register_controller1,
                 sr2 |-> shift_register_controller2,
                 route |-> "NONE",
                 calls |-> NoCalls]
    IN  IF WritesPpu(address)
        THEN [same EXCEPT !.route = "PPU",
                  !.calls = <<Call("PPU", "cpu_writes", PpuRegister(address), value)>>]
        ELSE IF WritesIo(address)
        THEN IF address = \h4016
             THEN [same EXCEPT !.strobe = WritePort(value).strobe,
                       !.sr1 = WritePort(value).sr1,
                       !.sr2 = WritePort(value).sr2,
                       !.route = "CTRL"]
             ELSE [same EXCEPT !.route = "APU",
                       !.calls = <<Call("APU", "cpu_writes", address, value)>>]
        ELSE IF WritesCart(address)
        THEN [same EXCEPT !.route = "CART",
                  !.calls = <<Call("CART", "cpu_writes", address, value)>>]
        ELSE same

cpu_writes(address, value) ==
    LET e == WriteEffect(address, value)
        o == Op("cpu_writes", address, value)
    IN  /\ strobe' = e.strobe
        /\ shift_register_controller1' = e.sr1
        /\ shift_register_controller2' = e.sr2
        /\ Observe(o, 0, e.route, e.calls)
        /\ latch' = LatchNext(o)
        /\ UNCHANGED <<zapper_connected, zapper, IRQ_line, NMI, controller_state,
                       asserted>>

(***************************************************************************)
(* Bus::ppu_reads, Bus::ppu_writes                                         *)
(***************************************************************************)
PpuReadEffect(address, dev) ==
    IF address >= \h0000 /\ address < \h2000
    THEN [data |-> dev, route |-> "CART",
          calls |-> <<Call("CART", "ppu_reads", address, 0)>>]
    ELSE [data |-> 0, route |-> "NONE", calls |-> NoCalls]

ppu_reads(address) ==
    \E dev \in DevBytes :
        LET e == PpuReadEffect(address, dev)
            o == Op("ppu_reads", address, 0)
        IN  /\ Observe(o, e.data, e.route, e.calls)
            /\ latch' = LatchNext(o)
            /\ UNCHANGED <<busVars, controller_state, asserted>>

PpuWriteEffect(address, value) ==
    [route |-> "CART", calls |-> <<Call("CART", "ppu_writes", address, value)>>]

ppu_writes(address, value) ==
    LET e == PpuWriteEffect(address, value)
        o == Op("ppu_writes", address, value)
    IN  /\ Observe(o, 0, e.route, e.calls)
        /\ latch' = LatchNext(o)
        /\ UNCHANGED <<busVars, controller_state, asserted>>

(***************************************************************************)
(* Bus::soft_reset, Bus::set_zapper                                        *)
(***************************************************************************)
\* a reset that also drops the interrupt line
soft_reset_drops_irq ==
    LET o == Op("soft_reset", 0, 0)
    IN  /\ NMI' = FALSE
        /\ shift_register_controller1' = 0
        /\ shift_register_controller2' = 0
        /\ IRQ_line' = 0
        /\ Observe(o, 0, "NONE", NoCalls)
        /\ latch' = LatchNext(o)
        /\ UNCHANGED <<strobe, zapper_connected, zapper, controller_state, asserted>>

soft_reset ==
    LET o == Op("soft_reset", 0, 0)
    IN  /\ NMI' = FALSE
        /\ shift_register_controller1' = 0
        /\ shift_register_controller2' = 0
        /\ Observe(o, 0, "NONE", NoCalls)
        /\ latch' = LatchNext(o)
        /\ UNCHANGED <<strobe, zapper_connected, zapper, IRQ_line, controller_state,
                       asserted>>

set_zapper(z) ==
    LET o == Op("set_zapper", 0, IF z THEN 1 ELSE 0)
    IN  /\ zapper_connected' = z
        /\ Observe(o, 0, "NONE", <<Call("PPU", "set_zapper", 0, IF z THEN 1 ELSE 0)>>)
        /\ latch' = LatchNext(o)
        /\ UNCHANGED <<strobe, shift_register_controller1, shift_register_controller2,
                       zapper, IRQ_line, NMI, controller_state, asserted>>

(***************************************************************************)
(* Bus::update_zapper_coordinates, Bus::fire_zapper, Bus::set_light_sensed *)
(***************************************************************************)
\* an aim that keeps bit 0 of the register
AimRegisterKeepsBit0(reg) == BitOr(BitAnd(reg, \hE7), 1 * Pow2(4))

\* shift_register_controller2 &= 0xE6; |= (zapper.trigger << 4), trigger = 1
AimRegister(reg) == BitOr(BitAnd(reg, \hE6), 1 * Pow2(4))

update_zapper_coordinates(x, y) ==
    LET o == Op("update_zapper_coordinates", x, y)
    IN  /\ zapper' = [zapper EXCEPT !.x = x, !.y = y, !.trigger = 1]
        /\ shift_register_controller2' = AimRegister(shift_register_controller2)
        /\ Observe(o, 0, "NONE", NoCalls)
        /\ latch' = LatchNext(o)
        /\ UNCHANGED <<strobe, shift_register_controller1, zapper_connected,
                       IRQ_line, NMI, controller_state, asserted>>

\* (shift_register_controller2 & ~(1 << 4)) | (zapper.trigger << 4), trigger = 0
FireRegister(reg) == BitOr(BitClear(reg, Pow2(4)), 0 * Pow2(4))

\* a hit test handed the coordinates in the wrong order
HitTestSwapped(z) == Call("PPU", "check_target_hit", z.y, z.x)

\* ppu->check_target_hit(zapper.x, zapper.y)
HitTest(z) == Call("PPU", "check_target_hit", z.x, z.y)

fire_zapper ==
    LET o == Op("fire_zapper", 0, 0)
    IN  /\ zapper' = [zapper EXCEPT !.trigger = 0]
        /\ shift_register_controller2' = FireRegister(shift_register_controller2)
        /\ Observe(o, 0, "NONE", <<HitTest(zapper)>>)
        /\ latch' = LatchNext(o)
        /\ UNCHANGED <<strobe, shift_register_controller1, zapper_connected,
                       IRQ_line, NMI, controller_state, asserted>>

\* a sensor bit stored without the inversion
SensedOfSame(hit) == IF hit THEN 1 ELSE 0

\* zapper.light_sensed = !hit
SensedOf(hit) == IF hit THEN 0 ELSE 1

\* (shift_register_controller2 & ~(1 << 3)) | (zapper.light_sensed << 3)
SenseRegister(reg, sensed) == BitOr(BitClear(reg, Pow2(3)), sensed * Pow2(3))

set_light_sensed(hit) ==
    LET o == Op("set_light_sensed", 0, IF hit THEN 1 ELSE 0)
    IN  /\ zapper' = [zapper EXCEPT !.light_sensed = SensedOf(hit)]
        /\ shift_register_controller2' =
               SenseRegister(shift_register_controller2, SensedOf(hit))
        /\ Observe(o, 0, "NONE", NoCalls)
        /\ latch' = LatchNext(o)
        /\ UNCHANGED <<strobe, shift_register_controller1, zapper_connected,
                       IRQ_line, NMI, controller_state, asserted>>

(***************************************************************************)
(* Bus::assert_irq, Bus::ack_irq, Bus::get_irq                             *)
(***************************************************************************)
\* IRQ_line |= irq
AssertLine(line, irq) == BitOr(line, irq)

\* an acknowledge that keeps only the acknowledged bit
AckLineKeeps(line, irq) == BitAnd(line, irq)

\* IRQ_line = IRQ_line & (~irq)
AckLine(line, irq) == BitClear(line, irq)

assert_irq(irq) ==
    LET o == Op("assert_irq", 0, irq)
    IN  /\ IRQ_line' = AssertLine(IRQ_line, irq)
        /\ asserted' = asserted \cup {irq}
        /\ Observe(o, 0, "NONE", NoCalls)
        /\ latch' = LatchNext(o)
        /\ UNCHANGED <<strobe, shift_register_controller1, shift_register_controller2,
                       zapper_connected, zapper, NMI, controller_state>>

ack_irq(irq) ==
    LET o == Op("ack_irq", 0, irq)
    IN  /\ IRQ_line' = AckLine(IRQ_line, irq)
        /\ asserted' = asserted \ {irq}
        /\ Observe(o, 0, "NONE", NoCalls)
        /\ latch' = LatchNext(o)
        /\ UNCHANGED <<strobe, shift_register_controller1, shift_register_controller2,
                       zapper_connected, zapper, NMI, controller_state>>

get_irq ==
    LET o == Op("get_irq", 0, 0)
    IN  /\ Observe(o, U8(IRQ_line), "NONE", NoCalls)
        /\ latch' = LatchNext(o)
        /\ UNCHANGED <<busVars, controller_state, asserted>>

(***************************************************************************)
(* The touch handler of main.cpp sets and clears bits of controller_state; *)
(* to the Bus it is an extern 16 bit value that changes between calls.     *)
(***************************************************************************)
SetControllerState(B) ==
    /\ controller_state' = B
    /\ Observe(Op("controller_state", 0, B), 0, "NONE", NoCalls)
    /\ UNCHANGED <<busVars, latch, asserted>>

(***************************************************************************)
(* The controller poll of the emulated program, on the emulation thread,   *)
(* against the touch branch of handle_events, on the presentation thread.  *)
(***************************************************************************)
\* the virtual buttons a finger can land on: nes_bit = 1 << b
Buttons == 0 .. MaxButton

\* where on the emulated screen a finger lands:
\* (touch_point.x * 256) / window_w, ((touch_point.y - padding) * 240) / ...
TouchPoints == {<<128, 120>>}

\* the emulated program is about to latch the controller
GameStart == [pc |-> "strobe_on", latched |-> 0, n |-> 0, last |-> 0]

\* the emulated program writes 1 to 0x4016
game_strobe_on ==
    /\ game.pc = "strobe_on"
    /\ cpu_writes(\h4016, 1)
    /\ game' = [pc |-> "strobe_off", latched |-> 0, n |-> 0, last |-> 0]
    /\ UNCHANGED touch_pc

\* the emulated program writes 0 to 0x4016: the latch is complete, with the
\* register holding the controller input sampled during it
game_strobe_off ==
    /\ game.pc = "strobe_off"
    /\ cpu_writes(\h4016, 0)
    /\ game' = [game EXCEPT !.pc = "read", !.latched = shift_register_controller1']
    /\ UNCHANGED touch_pc

\* the emulated program reads 0x4016, eight times per latch
game_read ==
    /\ game.pc = "read"
    /\ cpu_reads(\h4016)
    /\ game' = [game EXCEPT !.n = @ + 1,
                            !.last = data',
                            !.pc = IF game.n + 1 = 8 THEN "strobe_on" ELSE "read"]
    /\ UNCHANGED touch_pc

\* controller_state |= button.nes_bit
PressButton(state, b) == BitOr(state, Pow2(b))

\* controller_state &= ~button.nes_bit
ReleaseButton(state, b) == BitClear(state, Pow2(b))

\* SDL_FINGERDOWN / SDL_FINGERUP on a button, main.cpp:309-327: the button
\* is pressed, released, or left as it is (a second finger, a finger that
\* does not hold it)
touch_button ==
    /\ touch_pc = "poll"
    /\ \E b \in Buttons, e \in {"down", "up", "other"} :
           SetControllerState(IF e = "down" THEN PressButton(controller_state, b)
                              ELSE IF e = "up" THEN ReleaseButton(controller_state, b)
                              ELSE controller_state)
    /\ touch_pc' = "strobe_on"
    /\ UNCHANGED game

\* SDL_FINGERDOWN on the game screen with the light gun plugged in,
\* main.cpp:331-334
touch_aim ==
    /\ touch_pc = "poll"
    /\ zapper_connected
    /\ \E p \in TouchPoints : update_zapper_coordinates(p[1], p[2])
    /\ touch_pc' = "strobe_on"
    /\ UNCHANGED game

\* SDL_FINGERUP on the game screen with the light gun plugged in,
\* main.cpp:335-337
touch_fire ==
    /\ touch_pc = "poll"
    /\ zapper_connected
    /\ fire_zapper
    /\ touch_pc' = "strobe_on"
    /\ UNCHANGED game

\* nes->get_bus()->cpu_writes(0x4016, 1), main.cpp:347
touch_strobe_on ==
    /\ touch_pc = "strobe_on"
    /\ cpu_writes(\h4016, 1)
    /\ touch_pc' = "strobe_off"
    /\ UNCHANGED game

\* nes->get_bus()->cpu_writes(0x4016, 0), main.cpp:348
touch_strobe_off ==
    /\ touch_pc = "strobe_off"
    /\ cpu_writes(\h4016, 0)
    /\ touch_pc' = "poll"
    /\ UNCHANGED game

\* Settings / Toggle Zapper of handle_imGui, main.cpp:400-402
menu_toggle_zapper ==
    /\ touch_pc = "poll"
    /\ set_zapper(~zapper_connected)
    /\ UNCHANGED inputVars

(***************************************************************************)
(* The audio ring of main.cpp: audio_buffer, write_pos, read_pos.          *)
(***************************************************************************)
BUFFER_SIZE == Pow2(BufBits)

\* lengths the audio device asks for (len / sizeof(int16_t)), up to more
\* than the ring holds
Requests == 0 .. BUFFER_SIZE + 1

Silence(n) == [i \in 1 .. n |-> 0]

\* the samples written since write_pos = read_pos last held
BurstNext(w, r, kind) ==
    IF w = r THEN [samples |-> << >>, ok |-> TRUE]
    ELSE IF kind = "store" THEN [burst EXCEPT !.samples = Append(@, stored + 1)]
    ELSE IF kind = "keep" THEN burst
    ELSE [samples |-> << >>, ok |-> FALSE]

\* the APU side (NES::set_audio_buffer hands it audio_buffer, BUFFER_SIZE and
\* &write_pos): store one sample at write_pos, advance write_pos modulo the size
NextWritePos(w) == (w + 1) % BUFFER_SIZE

\* written and not yet read: more than the two cursors can tell apart
Overrun(written, read) == written - read > BUFFER_SIZE - 1

store_sample ==
    /\ stored < MaxSamples
    /\ audio_buffer' = [audio_buffer EXCEPT ![write_pos] = stored + 1]
    /\ write_pos' = NextWritePos(write_pos)
    /\ stored' = stored + 1
    /\ burst' = BurstNext(write_pos', read_pos, "store")
    /\ overrun' = (overrun \/ Overrun(stored', Len(consumed)))
    /\ UNCHANGED <<read_pos, output, samples_needed, audioPre, consumed, prod_pc, cb>>
    /\ UNCHANGED <<busVars, controller_state, obsVars, frameVars, inputVars>>

\* a distance that counts the slot the producer is about to fill
AvailableDataInclusive(w, r) == (IF w >= r THEN w - r ELSE (BUFFER_SIZE - r) + w) + 1

\* int available_data = (write_pos >= read_pos) ? ... : ...
AvailableData(w, r) == IF w >= r THEN w - r ELSE (BUFFER_SIZE - r) + w

\* std::copy(audio_buffer + from, audio_buffer + to, ...)
Chunk(buf, from, to) == [i \in 1 .. to - from |-> buf[from + i - 1]]

\* the indices of audio_buffer that std::copy reads
ChunkIndices(from, to) == from .. to - 1

\* the indices the one or two std::copy read
CopyIndices(r, n) ==
    IF r + n > BUFFER_SIZE
    THEN LET first_chunk_size == BUFFER_SIZE - r
         IN  ChunkIndices(r, BUFFER_SIZE) \cup ChunkIndices(0, n - first_chunk_size)
    ELSE ChunkIndices(r, r + n)

\* the wrapped case with its two chunks in the wrong order
CopyOutSwapped(buf, r, n) ==
    IF r + n > BUFFER_SIZE
    THEN LET first_chunk_size == BUFFER_SIZE - r
         IN  Chunk(buf, 0, n - first_chunk_size) \o Chunk(buf, r, BUFFER_SIZE)
    ELSE Chunk(buf, r, r + n)

\* the two std::copy of the wrapped case, or the single one
CopyOut(buf, r, n) ==
    IF r + n > BUFFER_SIZE
    THEN LET first_chunk_size == BUFFER_SIZE - r
         IN  Chunk(buf, r, BUFFER_SIZE) \o Chunk(buf, 0, n - first_chunk_size)
    ELSE Chunk(buf, r, r + n)

\* a cursor advanced without the mask
NextReadPosUnmasked(r, n) == (r + n) % 65536

\* read_pos = (read_pos + samples_needed) & (BUFFER_SIZE-1), a uint16_t
NextReadPos(r, n) == BitAnd((r + n) % 65536, BUFFER_SIZE - 1)

audio_callback(n) ==
    /\ samples_needed' = n
    /\ IF AvailableData(write_pos, read_pos) >= n
       THEN /\ output' = CopyOut(audio_buffer, read_pos, n)
            /\ read_pos' = NextReadPos(read_pos, n)
            /\ consumed' = consumed \o output'
            /\ audioPre' = [called |-> TRUE, write_pos |-> write_pos,
                            read_pos |-> read_pos, burst |-> burst,
                            available |-> AvailableData(write_pos, read_pos),
                            unread |-> stored - Len(consumed),
                            indices |-> CopyIndices(read_pos, n)]
       ELSE /\ output' = Silence(n)
            /\ read_pos' = read_pos
            /\ consumed' = consumed
            /\ audioPre' = [called |-> TRUE, write_pos |-> write_pos,
                            read_pos |-> read_pos, burst |-> burst,
                            available |-> AvailableData(write_pos, read_pos),
                            unread |-> stored - Len(consumed),
                            indices |-> {}]
    /\ burst' = BurstNext(write_pos, read_pos',
                          IF read_pos' = read_pos THEN "keep" ELSE "take")
    /\ UNCHANGED <<audio_buffer, write_pos, stored, overrun, prod_pc, cb>>
    /\ UNCHANGED <<busVars, controller_state, obsVars, frameVars, inputVars>>

\* no callback is running
CbIdle == [pc |-> "idle", i |-> 0]

InitAudio ==
    /\ audio_buffer = [i \in 0 .. BUFFER_SIZE - 1 |-> 0]
    /\ write_pos = 0
    /\ read_pos = 0
    /\ output = << >>
    /\ samples_needed = 0
    /\ stored = 0
    /\ burst = [samples |-> << >>, ok |-> TRUE]
    /\ audioPre = [called |-> FALSE, write_pos |-> 0, read_pos |-> 0, burst |-> burst,
                   available |-> 0, unread |-> 0, indices |-> {}]
    /\ consumed = << >>
    /\ overrun = FALSE
    /\ prod_pc = "store"
    /\ cb = CbIdle

(***************************************************************************)
(* The same ring with the producer and the callback taken step by step:    *)
(* the store and the advance of the producer are two steps, and the        *)
(* callback computes available_data, copies sample by sample and then      *)
(* advances read_pos, the other thread running in between.                 *)
(***************************************************************************)
othersThanAudio == <<busVars, controller_state, obsVars, frameVars, inputVars>>

\* audio_buffer[write_pos] = sample
prod_store ==
    /\ prod_pc = "store"
    /\ stored < MaxSamples
    /\ audio_buffer' = [audio_buffer EXCEPT ![write_pos] = stored + 1]
    /\ prod_pc' = "advance"
    /\ UNCHANGED <<write_pos, read_pos, output, samples_needed, stored, burst,
                   audioPre, consumed, overrun, cb>>
    /\ UNCHANGED othersThanAudio

\* write_pos = (write_pos + 1) % BUFFER_SIZE
prod_advance ==
    /\ prod_pc = "advance"
    /\ write_pos' = NextWritePos(write_pos)
    /\ stored' = stored + 1
    /\ overrun' = (overrun \/ Overrun(stored', Len(consumed)))
    /\ prod_pc' = "store"
    /\ UNCHANGED <<audio_buffer, read_pos, output, samples_needed, burst,
                   audioPre, consumed, cb>>
    /\ UNCHANGED othersThanAudio

\* main.cpp:225-228 and the else branch 239-241: the request and
\* available_data; too little data fills the stream with zeros at once
cb_begin(n) ==
    /\ cb.pc = "idle"
    /\ samples_needed' = n
    /\ IF AvailableData(write_pos, read_pos) >= n
       THEN /\ output' = << >>
            /\ cb' = [pc |-> "copy", i |-> 0]
       ELSE /\ output' = Silence(n)
            /\ cb' = CbIdle
    /\ UNCHANGED <<audio_buffer, write_pos, read_pos, stored, burst, audioPre,
                   consumed, overrun, prod_pc>>
    /\ UNCHANGED othersThanAudio

\* main.cpp:230-237: std::copy moves the next sample
cb_copy ==
    /\ cb.pc = "copy"
    /\ cb.i < samples_needed
    /\ output' = Append(output, CopyOut(audio_buffer, read_pos, samples_needed)[cb.i + 1])
    /\ cb' = [cb EXCEPT !.i = @ + 1]
    /\ UNCHANGED <<audio_buffer, write_pos, read_pos, samples_needed, stored, burst,
                   audioPre, consumed, overrun, prod_pc>>
    /\ UNCHANGED othersThanAudio

\* main.cpp:238: read_pos advances past what was copied
cb_end ==
    /\ cb.pc = "copy"
    /\ cb.i = samples_needed
    /\ read_pos' = NextReadPos(read_pos, samples_needed)
    /\ consumed' = consumed \o output
    /\ cb' = CbIdle
    /\ UNCHANGED <<audio_buffer, write_pos, output, samples_needed, stored, burst,
                   audioPre, overrun, prod_pc>>
    /\ UNCHANGED othersThanAudio

(***************************************************************************)
(* The frame hand-off of main.cpp: emulate_nes on the emulation thread,    *)
(* the loop of SDL_main on the presentation thread.                        *)
(***************************************************************************)
Pixels == 1 .. FrameLen

\* the frame run_frame leaves in the PPU: every pixel carries the frame's number
Frame(f) == [i \in Pixels |-> f]

NextFrameOf(f) == (f % NumFrames) + 1

\* a lock that is granted whoever holds it
MutexAlwaysFree == TRUE

\* std::lock_guard<std::mutex> lock(framebuffer_mutex) can be taken
MutexFree == framebuffer_mutex = "none"

othersThanFrame == <<busVars, controller_state, obsVars, audioVars, inputVars>>

\* a loop test that never looks at the flag
emu_while_forever ==
    /\ emu_pc = "while"
    /\ emu_pc' = "run_frame"
    /\ UNCHANGED <<running, framebuffer_mutex, screen, ppu_screen, texture,
                   game_loaded, frame_count, FPS, emu_i, main_pc, main_i>>
    /\ UNCHANGED othersThanFrame

\* while (running), main.cpp:192
emu_while ==
    /\ emu_pc = "while"
    /\ emu_pc' = IF running THEN "run_frame" ELSE "done"
    /\ UNCHANGED <<running, framebuffer_mutex, screen, ppu_screen, texture,
                   game_loaded, frame_count, FPS, emu_i, main_pc, main_i>>
    /\ UNCHANGED othersThanFrame

\* a frame run whether a game is loaded or not
emu_run_frame_unloaded ==
    /\ emu_pc = "run_frame"
    /\ ppu_screen' = Frame(NextFrameOf(ppu_screen[1]))
    /\ emu_pc' = "lock"
    /\ UNCHANGED <<running, framebuffer_mutex, screen, texture,
                   game_loaded, frame_count, FPS, emu_i, main_pc, main_i>>
    /\ UNCHANGED othersThanFrame

\* if (nes->is_game_loaded()) nes->run_frame(), main.cpp:196-198
emu_run_frame ==
    /\ emu_pc = "run_frame"
    /\ ppu_screen' = IF game_loaded THEN Frame(NextFrameOf(ppu_screen[1]))
                     ELSE ppu_screen
    /\ emu_pc' = "lock"
    /\ UNCHANGED <<running, framebuffer_mutex, screen, texture,
                   game_loaded, frame_count, FPS, emu_i, main_pc, main_i>>
    /\ UNCHANGED othersThanFrame

\* the lock_guard of main.cpp:201
emu_lock ==
    /\ emu_pc = "lock"
    /\ MutexFree
    /\ framebuffer_mutex' = "emu"
    /\ emu_pc' = "copy"
    /\ emu_i' = 1
    /\ UNCHANGED <<running, screen, ppu_screen, texture,
                   game_loaded, frame_count, FPS, main_pc, main_i>>
    /\ UNCHANGED othersThanFrame

\* screen = nes->get_ppu()->get_screen(), one element at a time, main.cpp:202
emu_copy ==
    /\ emu_pc = "copy"
    /\ screen' = [screen EXCEPT ![emu_i] = ppu_screen[emu_i]]
    /\ IF emu_i = FrameLen
       THEN emu_pc' = "unlock" /\ emu_i' = emu_i
       ELSE emu_pc' = "copy" /\ emu_i' = emu_i + 1
    /\ UNCHANGED <<running, framebuffer_mutex, ppu_screen, texture,
                   game_loaded, frame_count, FPS, main_pc, main_i>>
    /\ UNCHANGED othersThanFrame

\* the end of the block of main.cpp:200-203
emu_unlock ==
    /\ emu_pc = "unlock"
    /\ framebuffer_mutex' = "none"
    /\ emu_pc' = "count"
    /\ UNCHANGED <<running, screen, ppu_screen, texture,
                   game_loaded, frame_count, FPS, emu_i, main_pc, main_i>>
    /\ UNCHANGED othersThanFrame

\* frame_count++ and the once-a-second snapshot, main.cpp:205-211
emu_count ==
    /\ emu_pc = "count"
    /\ \/ /\ frame_count + 1 < MaxFrameCount
          /\ frame_count' = frame_count + 1
          /\ FPS' = FPS
       \/ /\ FPS' = frame_count + 1
          /\ frame_count' = 0
    /\ emu_pc' = "delay"
    /\ UNCHANGED <<running, framebuffer_mutex, screen, ppu_screen, texture,
                   game_loaded, emu_i, main_pc, main_i>>
    /\ UNCHANGED othersThanFrame

\* SDL_Delay, or none, main.cpp:213-219
emu_delay ==
    /\ emu_pc = "delay"
    /\ emu_pc' = "while"
    /\ UNCHANGED <<running, framebuffer_mutex, screen, ppu_screen, texture,
                   game_loaded, frame_count, FPS, emu_i, main_pc, main_i>>
    /\ UNCHANGED othersThanFrame

\* while (running), main.cpp:158
main_while ==
    /\ main_pc = "while"
    /\ main_pc' = IF running THEN "handle_events" ELSE "join"
    /\ UNCHANGED <<running, framebuffer_mutex, screen, ppu_screen, texture,
                   game_loaded, frame_count, FPS, emu_pc, emu_i, main_i>>
    /\ UNCHANGED othersThanFrame

\* handle_events: an SDL_QUIT among the polled events clears running,
\* main.cpp:283-289
handle_events ==
    /\ main_pc = "handle_events"
    /\ \E quit \in BOOLEAN : running' = IF quit THEN FALSE ELSE running
    /\ main_pc' = "draw_lock"
    /\ UNCHANGED <<framebuffer_mutex, screen, ppu_screen, texture,
                   game_loaded, frame_count, FPS, emu_pc, emu_i, main_i>>
    /\ UNCHANGED othersThanFrame

\* the lock_guard of draw_frame, main.cpp:250
draw_lock ==
    /\ main_pc = "draw_lock"
    /\ MutexFree
    /\ framebuffer_mutex' = "main"
    /\ main_pc' = "draw"
    /\ main_i' = 1
    /\ UNCHANGED <<running, screen, ppu_screen, texture,
                   game_loaded, frame_count, FPS, emu_pc, emu_i>>
    /\ UNCHANGED othersThanFrame

\* SDL_UpdateTexture(screenBuffer, NULL, screen.data(), ...), one pixel at a
\* time, main.cpp:251-252
draw_update ==
    /\ main_pc = "draw"
    /\ texture' = [texture EXCEPT ![main_i] = screen[main_i]]
    /\ IF main_i = FrameLen
       THEN main_pc' = "draw_unlock" /\ main_i' = main_i
       ELSE main_pc' = "draw" /\ main_i' = main_i + 1
    /\ UNCHANGED <<running, framebuffer_mutex, screen, ppu_screen,
                   game_loaded, frame_count, FPS, emu_pc, emu_i>>
    /\ UNCHANGED othersThanFrame

\* the end of the block of main.cpp:249-253
draw_unlock ==
    /\ main_pc = "draw_unlock"
    /\ framebuffer_mutex' = "none"
    /\ main_pc' = "handle_imGui"
    /\ UNCHANGED <<running, screen, ppu_screen, texture,
                   game_loaded, frame_count, FPS, emu_pc, emu_i, main_i>>
    /\ UNCHANGED othersThanFrame

\* handle_imGui: the Exit menu item clears running, main.cpp:385-387; then
\* the frame is presented, main.cpp:172-175
handle_imGui ==
    /\ main_pc = "handle_imGui"
    /\ \E exit \in BOOLEAN : running' = IF exit THEN FALSE ELSE running
    /\ main_pc' = "while"
    /\ UNCHANGED <<framebuffer_mutex, screen, ppu_screen, texture,
                   game_loaded, frame_count, FPS, emu_pc, emu_i, main_i>>
    /\ UNCHANGED othersThanFrame

\* emulation_thread.join(), main.cpp:178
main_join ==
    /\ main_pc = "join"
    /\ emu_pc = "done"
    /\ main_pc' = "teardown"
    /\ UNCHANGED <<running, framebuffer_mutex, screen, ppu_screen, texture,
                   game_loaded, frame_count, FPS, emu_pc, emu_i, main_i>>
    /\ UNCHANGED othersThanFrame

\* SDL_DestroyTexture, SDL_DestroyRenderer, SDL_DestroyWindow, main.cpp:179-184
main_teardown ==
    /\ main_pc = "teardown"
    /\ main_pc' = "done"
    /\ UNCHANGED <<running, framebuffer_mutex, screen, ppu_screen, texture,
                   game_loaded, frame_count, FPS, emu_pc, emu_i, main_i>>
    /\ UNCHANGED othersThanFrame

\* the globals of main.cpp as SDL_main leaves them when it starts the
\* emulation thread (main.cpp:146); the default ROM was found or not
FrameStart ==
    /\ game = GameStart
    /\ touch_pc = "poll"
    /\ running = TRUE
    /\ framebuffer_mutex = "none"
    /\ screen = Frame(0)
    /\ ppu_screen = Frame(0)
    /\ texture = Frame(0)
    /\ frame_count = 0
    /\ FPS = 0
    /\ emu_pc = "while"
    /\ emu_i = 1
    /\ main_pc = "while"
    /\ main_i = 1

(***************************************************************************)
(* Specifications of the Bus.                                              *)
(***************************************************************************)
InitBusFields ==
    /\ strobe = FALSE
    /\ shift_register_controller1 = 0
    /\ shift_register_controller2 = 0
    /\ zapper_connected = FALSE
    /\ zapper = [x |-> 0, y |-> 0, trigger |-> 0, light_sensed |-> 0]
    /\ IRQ_line = 0

InitObserved ==
    /\ op = Op("init", 0, 0)
    /\ data = 0
    /\ route = "NONE"
    /\ calls = NoCalls
    /\ pre = [bus |-> BusState, controller_state |-> controller_state]
    /\ latch = LatchIdle
    /\ asserted = {}

InitBus ==
    /\ InitBusFields
    /\ NMI = FALSE
    /\ InitObserved

Init ==
    /\ controller_state = 0
    /\ InitBus
    /\ InitAudio
    /\ FrameStart
    /\ game_loaded = FALSE

\* the two controller ports
PortAddrs == {\h4016, \h4017}

\* the controller / light-gun port protocol
Next ==
    \/ \E a \in PortAddrs : cpu_reads(a) /\ UNCHANGED inputVars
    \/ \E a \in PortAddrs, v \in WriteValues : cpu_writes(a, v) /\ UNCHANGED inputVars
    \/ \E B \in CtrlStates : SetControllerState(B) /\ UNCHANGED inputVars
    \/ \E z \in BOOLEAN : set_zapper(z) /\ UNCHANGED inputVars
    \/ soft_reset /\ UNCHANGED inputVars

Spec == Init /\ [][Next]_vars

\* the address decode, CPU side and PPU side, with button A held on both pads
InitDecode ==
    /\ controller_state = \h0101
    /\ InitBus
    /\ InitAudio
    /\ FrameStart
    /\ game_loaded = FALSE

NextDecode ==
    \/ \E a \in Addrs : cpu_reads(a) /\ UNCHANGED inputVars
    \/ \E a \in Addrs, v \in WriteValues : cpu_writes(a, v) /\ UNCHANGED inputVars
    \/ \E a \in Addrs : ppu_reads(a) /\ UNCHANGED inputVars
    \/ \E a \in Addrs, v \in WriteValues : ppu_writes(a, v) /\ UNCHANGED inputVars

SpecDecode == InitDecode /\ [][NextDecode]_vars

\* interrupt aggregation, beside the port protocol and soft_reset
NextIrq ==
    \/ \E s \in IrqSources : assert_irq(s) /\ UNCHANGED inputVars
    \/ \E s \in IrqSources : ack_irq(s) /\ UNCHANGED inputVars
    \/ get_irq /\ UNCHANGED inputVars
    \/ soft_reset /\ UNCHANGED inputVars
    \/ \E z \in BOOLEAN : set_zapper(z) /\ UNCHANGED inputVars
    \/ \E a \in PortAddrs : cpu_reads(a) /\ UNCHANGED inputVars
    \/ \E v \in WriteValues : cpu_writes(\h4016, v) /\ UNCHANGED inputVars

\* the interrupt line and the reset, entered with an NMI pending or not
InitIrq ==
    /\ controller_state = \h0101
    /\ InitBusFields
    /\ NMI \in BOOLEAN
    /\ InitObserved
    /\ InitAudio
    /\ FrameStart
    /\ game_loaded = FALSE

SpecIrq == InitIrq /\ [][NextIrq]_vars

\* the light gun on port 2
NextZapper ==
    \/ \E x \in ZapperXs, y \in ZapperYs : update_zapper_coordinates(x, y) /\ UNCHANGED inputVars
    \/ fire_zapper /\ UNCHANGED inputVars
    \/ \E hit \in BOOLEAN : set_light_sensed(hit) /\ UNCHANGED inputVars
    \/ \E z \in BOOLEAN : set_zapper(z) /\ UNCHANGED inputVars
    \/ cpu_reads(\h4017) /\ UNCHANGED inputVars
    \/ \E v \in WriteValues : cpu_writes(\h4016, v) /\ UNCHANGED inputVars
    \/ soft_reset /\ UNCHANGED inputVars

\* every button held on pad 2, none on pad 1
InitZapper ==
    /\ controller_state = \hFF00
    /\ InitBus
    /\ InitAudio
    /\ FrameStart
    /\ game_loaded = FALSE

SpecZapper == InitZapper /\ [][NextZapper]_vars

(***************************************************************************)
(* Specifications of the audio ring and of the frame hand-off.             *)
(***************************************************************************)
NextAudio ==
    \/ store_sample
    \/ \E n \in Requests : audio_callback(n)

SpecAudio == Init /\ [][NextAudio]_vars

NextAudioSteps ==
    \/ prod_store
    \/ prod_advance
    \/ \E n \in Requests : cb_begin(n)
    \/ cb_copy
    \/ cb_end

SpecAudioSteps == Init /\ [][NextAudioSteps]_vars

NextFrame ==
    \/ emu_while
    \/ emu_run_frame
    \/ emu_lock
    \/ emu_copy
    \/ emu_unlock
    \/ emu_count
    \/ emu_delay
    \/ main_while
    \/ handle_events
    \/ draw_lock
    \/ draw_update
    \/ draw_unlock
    \/ handle_imGui
    \/ main_join
    \/ main_teardown

\* the default ROM was found and loaded, or not (main.cpp:137-144)
InitFrame ==
    /\ controller_state = 0
    /\ InitBus
    /\ InitAudio
    /\ FrameStart
    /\ game_loaded \in BOOLEAN

SpecFrame == InitFrame /\ [][NextFrame]_vars

\* the emulated program polling the controller while fingers land on the
\* touch screen
NextInput ==
    \/ game_strobe_on
    \/ game_strobe_off
    \/ game_read
    \/ touch_button
    \/ touch_aim
    \/ touch_fire
    \/ touch_strobe_on
    \/ touch_strobe_off
    \/ menu_toggle_zapper

SpecInput == Init /\ [][NextInput]_vars

\* the steps of the emulation thread, emulate_nes
EmuThread ==
    \/ emu_while
    \/ emu_run_frame
    \/ emu_lock
    \/ emu_copy
    \/ emu_unlock
    \/ emu_count
    \/ emu_delay

\* the steps of the presentation thread, the loop of SDL_main and what follows
MainThread ==
    \/ main_while
    \/ handle_events
    \/ draw_lock
    \/ draw_update
    \/ draw_unlock
    \/ handle_imGui
    \/ main_join
    \/ main_teardown

\* both threads are scheduled: a thread that can take a step, and stays able
\* to, takes it (run_frame, SDL_Delay and the SDL calls return, and a free
\* mutex is granted)
SpecFrameFair == SpecFrame /\ WF_vars(EmuThread) /\ WF_vars(MainThread)

(***************************************************************************)
(* Properties.                                                             *)
(***************************************************************************)
IsRead(a) == op.name = "cpu_reads" /\ op.a = a

IsWrite(a) == op.name = "cpu_writes" /\ op.a = a

LowByte(x) == x % 256

HighByte(x) == (x \div 256) % 256

\* d | 0x40, for a byte d
WithBit6(d) == IF Bit(d, 6) = 1 THEN d ELSE d + 64

\* C1: after cpu_writes(0x4016, 1); cpu_writes(0x4016, 0) with controller_state
\* = B and no other Bus operation in between, the i-th following read of 0x4016
\* (i = 0..7) returns 0x40 | bit i of B, and the 9th and later reads return 0x40.
C1_LatchedReadsSerialiseB ==
    (IsRead(\h4016) /\ latch.phase = "w0" /\ latch.n >= 1) =>
        data = IF latch.n <= 8 THEN 64 + Bit(latch.B, latch.n - 1) ELSE 64

\* the 8th read after latching a bitmask whose bit 7 is set and bit 2 clear
C1_Witness ==
    /\ IsRead(\h4016)
    /\ latch.phase = "w0"
    /\ latch.n = 8
    /\ Bit(latch.B, 7) = 1
    /\ Bit(latch.B, 2) = 0
    /\ data = 65

\* the target the decode is said to pick for an address
ClaimedRoute(a) ==
    IF a >= \h2000 /\ a < \h4000 THEN "PPU"
    ELSE IF a = \h4016 \/ a = \h4017 THEN "CTRL"
    ELSE IF a >= \h4000 /\ a < \h4018 THEN "APU"
    ELSE IF a >= \h4020 /\ a <= \hFFFF THEN "CART"
    ELSE "NONE"

\* the same, with a write to 0x4017 forwarded to the APU
AmendedRoute(name, a) ==
    IF name = "cpu_writes" /\ a = \h4017 THEN "APU" ELSE ClaimedRoute(a)

\* what a dispatch to target r must look like: the one collaborator call with
\* its arguments, or none; the value read; the Bus left alone when unmapped
DispatchedTo(r) ==
    /\ route = r
    /\ r \in {"PPU", "APU", "CART"} =>
           /\ Len(calls) = 1
           /\ calls[1].unit = r
           /\ calls[1].fn = op.name
           /\ calls[1].a = (IF r = "PPU" THEN op.a % 8 ELSE op.a)
           /\ calls[1].v = op.v
           /\ BusState = pre.bus
    /\ r = "CTRL" => calls = NoCalls
    /\ r = "NONE" => calls = NoCalls /\ data = 0 /\ BusState = pre.bus

\* C2 as stated: cpu_reads(a) and cpu_writes(a, v) both dispatch 0x4016 and
\* 0x4017 to the controller protocol, [0x2000,0x4000) to the PPU register
\* a & 7, the rest of [0x4000,0x4018) to the APU, [0x4020,0xFFFF] to the
\* Cartridge, and any other address to nothing (read 0x00, no state change).
C2_Original ==
    op.name \in {"cpu_reads", "cpu_writes"} => DispatchedTo(ClaimedRoute(op.a))

\* C2 amended: as stated, except that cpu_writes(0x4017, v) is forwarded to the
\* APU; only cpu_reads treats 0x4017 as a controller port.
C2_DecodeIsTotalAndExclusive ==
    op.name \in {"cpu_reads", "cpu_writes"} =>
        DispatchedTo(AmendedRoute(op.name, op.a))

\* a write to 0x4017 that reached the APU
C2_Witness ==
    /\ IsWrite(\h4017)
    /\ route = "APU"
    /\ calls = <<Call("APU", "cpu_writes", \h4017, op.v)>>
    /\ op.v > 0

\* C3: get_irq() is the OR of the bits of exactly the sources whose most recent
\* call was assert_irq; assert_irq and ack_irq of one source leave the bits of
\* the other sources as they were.
C3_IrqLineIsAssertedSources ==
    /\ \A i \in 0 .. 7 : (Bit(IRQ_line, i) = 1) <=> (Pow2(i) \in asserted)
    /\ IRQ_line < 256
    /\ op.name = "get_irq" => data = IRQ_line
    /\ op.name \in {"assert_irq", "ack_irq"} =>
           \A i \in 0 .. 7 :
               Pow2(i) # op.v => Bit(IRQ_line, i) = Bit(pre.bus.IRQ_line, i)

\* both sources were asserted, one was acknowledged, the other is still there
C3_Witness ==
    /\ op.name = "ack_irq"
    /\ op.v = 1
    /\ pre.bus.IRQ_line = 3
    /\ IRQ_line = 2

Uniform(f) == \A i, j \in Pixels : f[i] = f[j]

\* C4: the copy into screen by emulate_nes and the read of screen by draw_frame
\* never overlap, and every frame draw_frame has read is one whole frame of a
\* single producer iteration (or the initial frame), never a mix of two.
C4_FrameHandoffIsAtomic ==
    /\ ~(emu_pc = "copy" /\ main_pc = "draw")
    /\ main_pc = "draw" => Uniform(screen)
    /\ main_pc # "draw" => Uniform(texture)

\* the presentation thread reads frame 1 while the emulation thread, holding
\* frame 2, waits for the mutex
C4_Witness ==
    /\ main_pc = "draw"
    /\ main_i = FrameLen
    /\ screen = Frame(1)
    /\ emu_pc = "lock"
    /\ ppu_screen = Frame(2)

\* available_data as audio_callback computes it
ClaimedAvailable(w, r) == IF w >= r THEN w - r ELSE (BUFFER_SIZE - r) + w

\* C5: a request for more samples than are available fills the whole output
\* with zeros and leaves read_pos unchanged; otherwise read_pos advances by
\* samples_needed modulo BUFFER_SIZE.
C5_UnderrunIsSilence ==
    audioPre.called =>
        IF ClaimedAvailable(audioPre.write_pos, audioPre.read_pos) < samples_needed
        THEN /\ Len(output) = samples_needed
             /\ \A i \in 1 .. samples_needed : output[i] = 0
             /\ read_pos = audioPre.read_pos
        ELSE read_pos = (audioPre.read_pos + samples_needed) % BUFFER_SIZE

\* an underrun with unread samples in the ring
C5_Witness ==
    /\ audioPre.called
    /\ ClaimedAvailable(audioPre.write_pos, audioPre.read_pos) > 0
    /\ ClaimedAvailable(audioPre.write_pos, audioPre.read_pos) < samples_needed
    /\ audioPre.read_pos > 0
    /\ output = Silence(samples_needed)
    /\ read_pos = audioPre.read_pos

\* C6: N samples (0 < N < BUFFER_SIZE) written from write_pos = read_pos and
\* then requested come out of audio_callback as written and in that order,
\* whether copied as one chunk or as two.
C6_RingRoundTrip ==
    (/\ audioPre.called
     /\ audioPre.burst.ok
     /\ samples_needed = Len(audioPre.burst.samples)
     /\ samples_needed > 0
     /\ samples_needed < BUFFER_SIZE) =>
        output = audioPre.burst.samples

\* a round trip of several samples across the end of the ring
C6_Witness ==
    /\ audioPre.called
    /\ audioPre.burst.ok
    /\ samples_needed = Len(audioPre.burst.samples)
    /\ samples_needed > 2
    /\ audioPre.read_pos + samples_needed > BUFFER_SIZE
    /\ output = audioPre.burst.samples

\* C7: while strobe is 1, a read of 0x4016 returns 0x40 | bit 0 of the port 1
\* shift register and leaves the register unchanged; the register is shifted
\* right by one only by a read of 0x4016 made while strobe is 0.
C7_StrobeHighReadsDoNotShift ==
    /\ IsRead(\h4016) =>
           /\ data = 64 + (pre.bus.sr1 % 2)
           /\ pre.bus.strobe => shift_register_controller1 = pre.bus.sr1
           /\ ~pre.bus.strobe => shift_register_controller1 = pre.bus.sr1 \div 2
    /\ (op.name = "cpu_reads" /\ shift_register_controller1 # pre.bus.sr1) =>
           op.a = \h4016 /\ ~pre.bus.strobe

\* a read under strobe of a register that still holds several buttons
C7_Witness ==
    /\ IsRead(\h4016)
    /\ pre.bus.strobe
    /\ pre.bus.sr1 > 2
    /\ pre.bus.sr1 % 2 = 1
    /\ shift_register_controller1 = pre.bus.sr1
    /\ data = 65

C9_LatchLoadsLowAndHighByte ==
    (IsWrite(\h4016) /\ op.v % 2 = 1) =>
        /\ shift_register_controller1 = LowByte(pre.controller_state)
        /\ shift_register_controller2 =
               IF pre.bus.zapper_connected THEN pre.bus.sr2
               ELSE HighByte(pre.controller_state)

\* a latch with the light gun connected, port 2 holding something else than
\* the high byte
C9_Witness ==
    /\ IsWrite(\h4016)
    /\ op.v % 2 = 1
    /\ pre.bus.zapper_connected
    /\ pre.bus.sr2 # HighByte(pre.controller_state)
    /\ pre.bus.sr2 > 0
    /\ HighByte(pre.controller_state) > 0
    /\ shift_register_controller2 = pre.bus.sr2
    /\ shift_register_controller1 = LowByte(pre.controller_state)

\* C10: with zapper_connected, a read of 0x4017 returns the whole port 2
\* register | 0x40, leaves the register alone whatever strobe is, and sets
\* zapper.light_sensed; without it the read follows the strobe / shift protocol
\* of port 1 and changes no Zapper field.
C10_ZapperReadBypassesShift ==
    IsRead(\h4017) =>
        IF pre.bus.zapper_connected
        THEN /\ data = WithBit6(pre.bus.sr2)
             /\ shift_register_controller2 = pre.bus.sr2
             /\ zapper.light_sensed = 1
        ELSE /\ data = 64 + (pre.bus.sr2 % 2)
             /\ shift_register_controller2 =
                    IF pre.bus.strobe THEN pre.bus.sr2 ELSE pre.bus.sr2 \div 2
             /\ zapper = pre.bus.zapper

\* a light gun read, strobe low, of a register with bit 6 clear and more than
\* bit 0 set
C10_Witness ==
    /\ IsRead(\h4017)
    /\ pre.bus.zapper_connected
    /\ ~pre.bus.strobe
    /\ pre.bus.sr2 > 1
    /\ Bit(pre.bus.sr2, 6) = 0
    /\ data = pre.bus.sr2 + 64
    /\ shift_register_controller2 = pre.bus.sr2
    /\ pre.bus.zapper.light_sensed = 0
    /\ zapper.light_sensed = 1

(***************************************************************************)
(* Light gun: aiming, firing and the light sensor.                         *)
(***************************************************************************)
IsOp(name) == op.name = name

\* the bits of the port-2 register outside the set S are as they were
\* before the operation
OtherBitsKept(S) ==
    \A i \in (0 .. 7) \ S :
        Bit(shift_register_controller2, i) = Bit(pre.bus.sr2, i)

\* C11: the Zapper holds the coordinates of the most recent
\* update_zapper_coordinates (the update stores its arguments and makes no
\* call, and no other operation touches them), and fire_zapper makes exactly
\* one call, check_target_hit with those coordinates, leaving the trigger 0
\* and bit 4 of the port-2 shift register 0.
C11_FireTestsLastAim ==
    /\ IsOp("update_zapper_coordinates") =>
            /\ zapper.x = op.a /\ zapper.y = op.v
            /\ calls = NoCalls
    /\ ~IsOp("update_zapper_coordinates") =>
            /\ zapper.x = pre.bus.zapper.x /\ zapper.y = pre.bus.zapper.y
    /\ IsOp("fire_zapper") =>
            /\ calls = <<Call("PPU", "check_target_hit",
                              pre.bus.zapper.x, pre.bus.zapper.y)>>
            /\ zapper.trigger = 0
            /\ Bit(shift_register_controller2, 4) = 0

\* fired after an aim at the far corner, the trigger having been pulled
C11_Witness ==
    /\ IsOp("fire_zapper")
    /\ pre.bus.zapper.trigger = 1
    /\ Bit(pre.bus.sr2, 4) = 1
    /\ calls = <<Call("PPU", "check_target_hit", 255, 0)>>

\* C12: set_light_sensed(hit) stores the inverted value: light_sensed and
\* bit 3 of the port-2 shift register both become !hit, and every other bit
\* of the register is unchanged.
C12_LightSensedIsInverted ==
    IsOp("set_light_sensed") =>
        /\ zapper.light_sensed = 1 - op.v
        /\ Bit(shift_register_controller2, 3) = 1 - op.v
        /\ OtherBitsKept({3})

\* a hit reported while bit 3 was set and other bits of the register too
C12_Witness ==
    /\ IsOp("set_light_sensed")
    /\ op.v = 1
    /\ Bit(pre.bus.sr2, 3) = 1
    /\ Bit(shift_register_controller2, 3) = 0
    /\ Bit(shift_register_controller2, 7) = 1

\* C19 as stated: update_zapper_coordinates stores x and y, sets the trigger,
\* and clears exactly one bit of the port-2 shift register, every other bit
\* staying as it was.
C19_Original ==
    IsOp("update_zapper_coordinates") =>
        /\ zapper.x = op.a /\ zapper.y = op.v /\ zapper.trigger = 1
        /\ \E b \in 0 .. 7 :
               /\ Bit(shift_register_controller2, b) = 0
               /\ OtherBitsKept({b})

\* C19: update_zapper_coordinates stores x and y, sets the trigger, clears
\* bits 0 and 3 of the port-2 shift register and sets its bit 4; bits 1, 2,
\* 5, 6 and 7 stay as they were.
C19_AimClearsTwoBitsSetsTrigger ==
    IsOp("update_zapper_coordinates") =>
        /\ zapper.x = op.a /\ zapper.y = op.v /\ zapper.trigger = 1
        /\ Bit(shift_register_controller2, 0) = 0
        /\ Bit(shift_register_controller2, 3) = 0
        /\ Bit(shift_register_controller2, 4) = 1
        /\ OtherBitsKept({0, 3, 4})

\* an aim taken while bits 0 and 3 were set and bit 4 clear
C19_Witness ==
    /\ IsOp("update_zapper_coordinates")
    /\ Bit(pre.bus.sr2, 0) = 1
    /\ Bit(pre.bus.sr2, 3) = 1
    /\ Bit(pre.bus.sr2, 4) = 0
    /\ Bit(shift_register_controller2, 7) = 1

(***************************************************************************)
(* Reset.                                                                  *)
(***************************************************************************)
\* the Bus as soft_reset leaves it, given the Bus before
ResetOf(b) == [b EXCEPT !.sr1 = 0, !.sr2 = 0, !.NMI = FALSE]

\* C20: soft_reset sets both shift registers to 0 and NMI to false and
\* changes nothing else (strobe, IRQ_line, zapper_connected, the Zapper and
\* the controller input keep their values), so that a reset of a reset
\* state changes nothing, and get_irq still reports every source asserted
\* and not acknowledged, a reset in between or not.
C20_ResetClearsOnlyTransientState ==
    /\ IsOp("soft_reset") =>
            /\ shift_register_controller1 = 0
            /\ shift_register_controller2 = 0
            /\ NMI = FALSE
            /\ BusState = ResetOf(pre.bus)
            /\ controller_state = pre.controller_state
            /\ (pre.bus = ResetOf(pre.bus) => BusState = pre.bus)
    /\ IsOp("get_irq") => \A s \in asserted : BitAnd(data, s) = s

\* a reset with an NMI pending, an interrupt asserted, the strobe high, the
\* light gun plugged in and both registers loaded
C20_Witness ==
    /\ IsOp("soft_reset")
    /\ pre.bus.NMI
    /\ pre.bus.IRQ_line # 0
    /\ pre.bus.strobe
    /\ pre.bus.zapper_connected
    /\ pre.bus.sr1 # 0
    /\ pre.bus.sr2 # 0
    /\ IRQ_line = pre.bus.IRQ_line

(***************************************************************************)
(* Write decode against read decode.                                       *)
(***************************************************************************)
\* the target class cpu_reads picks for an address
ReadRoute(a) == ReadEffect(a, 0).route

\* the target class cpu_writes picks for an address
WriteRoute(a) == WriteEffect(a, 0).route

\* C14 as stated: cpu_writes(a, v) is dispatched to the target class that
\* cpu_reads(a) is dispatched to, for every address a, 0x4016 and 0x4017
\* included.
C14_Original ==
    /\ IsOp("cpu_writes") => route = ReadRoute(op.a)
    /\ IsOp("cpu_reads") => route = WriteRoute(op.a)

\* C14: cpu_writes(a, v) is dispatched to the target class that cpu_reads(a)
\* is dispatched to for every address a other than 0x4017; 0x4017 is handled
\* with the controller protocol by cpu_reads and forwarded to the APU by
\* cpu_writes.
C14_WritesMirrorReadsExcept4017 ==
    /\ (IsOp("cpu_writes") /\ op.a # \h4017) => route = ReadRoute(op.a)
    /\ (IsOp("cpu_reads") /\ op.a # \h4017) => route = WriteRoute(op.a)
    /\ IsWrite(\h4017) => route = "APU" /\ ReadRoute(op.a) = "CTRL"
    /\ IsRead(\h4017) => route = "CTRL" /\ WriteRoute(op.a) = "APU"

\* a read of 0x4017 answered by the controller protocol, where a write would
\* have called the APU
C14_Witness ==
    /\ IsRead(\h4017)
    /\ route = "CTRL"
    /\ calls = NoCalls
    /\ WriteEffect(op.a, 0).calls = <<Call("APU", "cpu_writes", \h4017, 0)>>

(***************************************************************************)
(* Shutdown.                                                               *)
(***************************************************************************)
\* C13: running, once false, is never true again; the emulation thread that
\* reaches its loop test with running false leaves the loop without another
\* iteration, and once running is false it terminates; the presentation
\* thread destroys texture, renderer and window only after the emulation
\* thread has terminated.
C13_CooperativeShutdown ==
    /\ [][~running => ~running']_vars
    /\ [][(~running /\ emu_pc = "while") => emu_pc' \in {"while", "done"}]_vars
    /\ [][emu_pc = "done" => emu_pc' = "done"]_vars
    /\ [](main_pc \in {"teardown", "done"} => emu_pc = "done")
    /\ (~running ~> emu_pc = "done")
    /\ (~running ~> main_pc = "done")

\* the flag is clear, the emulation thread has returned after handing over
\* frame 2, and the presentation thread is about to destroy the window
C13_Witness ==
    /\ ~running
    /\ game_loaded
    /\ emu_pc = "done"
    /\ main_pc = "teardown"
    /\ screen = Frame(2)

(***************************************************************************)
(* The audio ring under concurrency, its distance and its bounds.          *)
(***************************************************************************)
\* the first n samples the producer wrote: the k-th sample written is k
Written(n) == [i \in 1 .. n |-> i]

\* samples written and not yet read
Unread == stored - Len(consumed)

\* C16: as long as the producer has never been BUFFER_SIZE or more samples
\* ahead of the consumer, the samples the callbacks have copied out, the ones
\* of a copy in progress included, are the first samples the producer wrote,
\* in order, each once, whatever the interleaving of the producer's store
\* and advance with the steps of the callback.
C16_ConsumedIsPrefixOfWritten ==
    ~overrun =>
        /\ Len(consumed) <= stored
        /\ consumed = Written(Len(consumed))
        /\ cb.pc = "copy" =>
               consumed \o output = Written(Len(consumed) + Len(output))

\* a copy under way across the end of the ring while the producer has stored
\* a sample it has not published yet
C16_Witness ==
    /\ ~overrun
    /\ cb.pc = "copy"
    /\ prod_pc = "advance"
    /\ Len(consumed) >= 2
    /\ read_pos + samples_needed > BUFFER_SIZE
    /\ Len(output) = samples_needed
    /\ samples_needed >= 2

\* C17 as stated: available_data, computed from the two cursors, equals the
\* number of samples written and not yet read in every reachable state.
C17_Original == AvailableData(write_pos, read_pos) = Unread

\* C18: write_pos and read_pos stay in [0, BUFFER_SIZE); a callback reads
\* audio_buffer only at indices in [0, BUFFER_SIZE) and fills exactly
\* samples_needed output samples, for every requested length, the ones
\* above BUFFER_SIZE included, whether it copies one chunk, two, or silence.
C18_CallbackStaysInBounds ==
    /\ write_pos \in 0 .. BUFFER_SIZE - 1
    /\ read_pos \in 0 .. BUFFER_SIZE - 1
    /\ audioPre.called =>
           /\ DOMAIN output = 1 .. samples_needed
           /\ audioPre.indices \subseteq 0 .. BUFFER_SIZE - 1
           /\ audioPre.available >= samples_needed =>
                  Cardinality(audioPre.indices) = samples_needed
           /\ audioPre.available < samples_needed =>
                  audioPre.indices = {} /\ output = Silence(samples_needed)

\* a request for more than the ring holds, after copies that wrapped
C18_Witness ==
    /\ audioPre.called
    /\ samples_needed > BUFFER_SIZE
    /\ Len(output) = BUFFER_SIZE + 1
    /\ Len(consumed) > BUFFER_SIZE
    /\ read_pos # 0

(***************************************************************************)
(* The controller poll against touch events.                               *)
(***************************************************************************)
\* C15 as stated: whatever the presentation thread does in between, each of
\* the reads of 0x4016 that follow the emulated program's latch, the n-th
\* returning bit n-1, returns a bit of the one controller value the latch
\* left in the register (with bit 6 set).
C15_Original ==
    game.n >= 1 => game.last = WithBit6(Bit(game.latched, game.n - 1))

(***************************************************************************)
(* The PPU side of the Bus.                                                *)
(***************************************************************************)
\* the pattern-table window [0x0000, 0x2000)
InPatternTables(a) == a >= \h0000 /\ a < \h2000

\* the part of C21 about ppu_reads: the Cartridge is called, once and with
\* the address, exactly for the pattern-table window, and its answer is
\* returned; any other address reads 0x00 with no call and no state change
PpuReadsGuarded ==
    IsOp("ppu_reads") =>
        /\ BusState = pre.bus
        /\ IF InPatternTables(op.a)
           THEN /\ calls = <<Call("CART", "ppu_reads", op.a, 0)>>
                /\ data \in DevBytes
           ELSE /\ calls = NoCalls
                /\ data = 0

\* C21 as stated: ppu_reads(a) and ppu_writes(a, v) reach the Cartridge
\* exactly for a in [0x0000, 0x2000); any other ppu_reads returns 0x00 with
\* no Cartridge call, and any other ppu_writes is a no-op.
C21_Original ==
    /\ PpuReadsGuarded
    /\ IsOp("ppu_writes") =>
           /\ BusState = pre.bus
           /\ IF InPatternTables(op.a)
              THEN calls = <<Call("CART", "ppu_writes", op.a, op.v)>>
              ELSE calls = NoCalls

(***************************************************************************)
(* One iteration of the pacing loop of emulate_nes.                        *)
(***************************************************************************)
\* the order of the steps of an iteration: the loop test, the frame, the
\* locked copy, the count, the sleep
IterationOrder ==
    {<<"while", "run_frame">>, <<"while", "done">>, <<"run_frame", "lock">>,
     <<"lock", "copy">>, <<"copy", "copy">>, <<"copy", "unlock">>,
     <<"unlock", "count">>, <<"count", "delay">>, <<"delay", "while">>}

\* the emulation thread holds framebuffer_mutex
EmuHoldsMutex == framebuffer_mutex = "emu"

\* C22: an iteration of emulate_nes goes through its steps in order; the
\* PPU frame advances only at the run_frame step, by exactly one frame when
\* a game is loaded and not at all otherwise, and never while the emulation
\* thread holds framebuffer_mutex; screen is written only while the
\* emulation thread holds the mutex, and equals the PPU screen when the copy
\* is done, game loaded or not; frame_count moves only at the count step,
\* after the copy, where it is incremented by exactly one (the once-a-second
\* snapshot then moves the incremented value to FPS); and the mutex is not
\* held by the emulation thread when the iteration sleeps.
C22_IterationOrder ==
    /\ [][emu_pc' # emu_pc \/ emu_i' # emu_i => <<emu_pc, emu_pc'>> \in IterationOrder]_vars
    /\ [][ppu_screen' # ppu_screen =>
              /\ emu_pc = "run_frame" /\ emu_pc' = "lock"
              /\ ~EmuHoldsMutex]_vars
    /\ [][emu_pc = "run_frame" /\ emu_pc' = "lock" =>
              ppu_screen' = IF game_loaded THEN Frame(NextFrameOf(ppu_screen[1]))
                            ELSE ppu_screen]_vars
    /\ [][screen' # screen => EmuHoldsMutex /\ emu_pc = "copy"]_vars
    /\ [](emu_pc = "unlock" => EmuHoldsMutex /\ screen = ppu_screen)
    /\ [][frame_count' # frame_count \/ FPS' # FPS =>
              emu_pc = "count" /\ emu_pc' = "delay"]_vars
    /\ [][emu_pc = "count" /\ emu_pc' = "delay" =>
              \/ frame_count' = frame_count + 1 /\ FPS' = FPS
              \/ FPS' = frame_count + 1 /\ frame_count' = 0]_vars
    /\ [](emu_pc \in {"while", "run_frame", "lock", "count", "delay", "done"} =>
              ~EmuHoldsMutex)

\* the emulation thread sleeps after an iteration with a game loaded: frame 2
\* is in screen, the count has just been snapshot, and the presentation
\* thread holds the mutex the emulation thread gave back
C22_Witness ==
    /\ game_loaded
    /\ emu_pc = "delay"
    /\ screen = Frame(2)
    /\ ppu_screen = Frame(2)
    /\ FPS = MaxFrameCount
    /\ frame_count = 0
    /\ framebuffer_mutex = "main"

====
